---- MODULE Spec2Model ----
(***************************************************************************)
(* Model of tangent_to_midi.py: an OSC server that hands every received    *)
(* packet to osc_handler on a thread of its own (ThreadingOSCUDPServer),   *)
(* which translates it to at most one MIDI message through MIDI_MAPPING,   *)
(* the shared dictionary cc_values and the output port midi_out_port.      *)
(*                                                                         *)
(* Numbers that may be fractional (OSC floats, the value_map limits) are   *)
(* exact rationals <<numerator, denominator>> with a positive denominator. *)
(* The fractions used are dyadic and the value_map spans are powers of     *)
(* two, so the float arithmetic of scale_value is exact on them.           *)
(***************************************************************************)
EXTENDS Integers, Sequences, FiniteSets, TLC

VARIABLES
    cc_values,      \* the global dict: control number -> value
    midi_out_port,  \* the messages handed to midi_out_port.send, in order
    sent_by,        \* history: for each message sent, the event it came
                    \* from, [t, address, args], t its place in the order
                    \* of delivery
    threads,        \* one handler invocation per delivered event, in
                    \* the order of delivery
    table,          \* which mapping table the module was started with
    main_pc,        \* where main() is
    port,           \* the virtual MIDI port: "unopened", "open", "closed"
    scale_call      \* one call of scale_value: its arguments and result

vars == <<cc_values, midi_out_port, sent_by, threads,
          table, main_pc, port, scale_call>>

\* what no step of osc_handler changes
env == <<table, main_pc, port, scale_call>>

----------------------------------------------------------------------------
(* Bounds                                                                  *)

\* events delivered in a run with concurrent handlers
MaxEvents == 2

\* events delivered in a run that handles them one at a time
MaxSeqEvents == 3

\* packets delivered in a run of main()
MaxMainEvents == 2

----------------------------------------------------------------------------
(* Rational arithmetic                                                     *)

Q(n, d) == <<n, d>>

RLess(a, b) == a[1] * b[2] < b[1] * a[2]

REq(a, b) == a[1] * b[2] = b[1] * a[2]

RAdd(a, b) == <<a[1] * b[2] + b[1] * a[2], a[2] * b[2]>>

\* a variant with the operands the other way round
RSubMutSwapped(a, b) == <<b[1] * a[2] - a[1] * b[2], a[2] * b[2]>>

RSub(a, b) == <<a[1] * b[2] - b[1] * a[2], a[2] * b[2]>>

RMul(a, b) == <<a[1] * b[1], a[2] * b[2]>>

\* a / b for b # 0, keeping the denominator positive
RDiv(a, b) ==
    IF b[1] > 0 THEN <<a[1] * b[2], a[2] * b[1]>>
                ELSE <<-(a[1] * b[2]), -(a[2] * b[1])>>

\* Python's max(a, b) and min(a, b) on numbers
max(a, b) == IF RLess(a, b) THEN b ELSE a

\* a variant that does not limit its second argument
minMutSecond(a, b) == b

min(a, b) == IF RLess(b, a) THEN b ELSE a

----------------------------------------------------------------------------
(* Results of operations that may raise                                    *)

Ok(v) == [ok |-> TRUE, v |-> v]

Raise == [ok |-> FALSE, v |-> 0]

----------------------------------------------------------------------------
(* OSC arguments: a number (int or float, as a rational) or a string (a    *)
(* sequence of characters).  args is a sequence of them, possibly empty.   *)

NumArg(n, d) == [k |-> "num", q |-> <<n, d>>, s |-> <<>>]

StrArg(s) == [k |-> "str", q |-> <<0, 1>>, s |-> s]

\* args[0]: IndexError on an empty tuple
Arg0(args) == IF Len(args) = 0 THEN Raise ELSE Ok(args[1])

DigitChars == {"0", "1", "2", "3", "4", "5", "6", "7", "8", "9"}

DigitVal(c) ==
    CASE c = "0" -> 0 [] c = "1" -> 1 [] c = "2" -> 2 [] c = "3" -> 3
      [] c = "4" -> 4 [] c = "5" -> 5 [] c = "6" -> 6 [] c = "7" -> 7
      [] c = "8" -> 8 [] c = "9" -> 9

RECURSIVE DigitsVal(_)
DigitsVal(s) ==
    IF Len(s) = 0 THEN 0
    ELSE 10 * DigitsVal(SubSeq(s, 1, Len(s) - 1)) + DigitVal(s[Len(s)])

IsDigits(s) == Len(s) > 0 /\ \A i \in 1..Len(s) : s[i] \in DigitChars

\* a variant that rounds to the nearest integer, halves away from zero
TruncMutRound(q) ==
    IF q[1] >= 0 THEN (2 * q[1] + q[2]) \div (2 * q[2])
                 ELSE -((2 * (-q[1]) + q[2]) \div (2 * q[2]))

\* a variant that rounds down (floor)
TruncMutFloor(q) == q[1] \div q[2]

\* int() of a float or int: truncation toward zero
Trunc(q) ==
    IF q[1] >= 0 THEN q[1] \div q[2] ELSE -((-q[1]) \div q[2])

\* int() of a string: an optional sign and decimal digits, else ValueError
IntOfStr(s) ==
    IF Len(s) > 1 /\ s[1] \in {"+", "-"} /\ IsDigits(Tail(s))
    THEN Ok(IF s[1] = "-" THEN -DigitsVal(Tail(s)) ELSE DigitsVal(Tail(s)))
    ELSE IF IsDigits(s) THEN Ok(DigitsVal(s)) ELSE Raise

\* Python's int(x)
int(x) == IF x.k = "num" THEN Ok(Trunc(x.q)) ELSE IntOfStr(x.s)

\* a variant that tests x >= 0
GreaterThanZeroMutGe(x) == IF x.k = "num" THEN Ok(x.q[1] >= 0) ELSE Raise

\* x > 0: TypeError when x is a string
GreaterThanZero(x) == IF x.k = "num" THEN Ok(x.q[1] > 0) ELSE Raise

----------------------------------------------------------------------------
(* Configuration                                                           *)

\* The table as shipped
ExampleMapping ==
    ("/tangent/bt/A/press" :>
        [type |-> "note_on_off", channel |-> 0, note |-> 60])
 @@ ("/tangent/kn/A/delta" :>
        [type |-> "cc_relative", channel |-> 0, control |-> 20])
 @@ ("/tangent/wh/A/delta" :>
        [type |-> "cc_relative", channel |-> 0, control |-> 21])
 @@ ("/tangent/sl/A/value" :>
        [type |-> "cc_absolute", channel |-> 0, control |-> 22,
         value_map |-> [in_min |-> Q(0, 1), in_max |-> Q(1, 1),
                        out_min |-> Q(0, 1), out_max |-> Q(127, 1)]])

\* Entries a user adds in the documented MAPPING FORMAT: a second knob that
\* drives CC 20 on another channel, and a bipolar slider.
CustomMapping ==
    ("/tangent/kn/B/delta" :>
        [type |-> "cc_relative", channel |-> 1, control |-> 20])
 @@ ("/tangent/sl/B/value" :>
        [type |-> "cc_absolute", channel |-> 1, control |-> 23,
         value_map |-> [in_min |-> Q(-1, 1), in_max |-> Q(1, 1),
                        out_min |-> Q(10, 1), out_max |-> Q(100, 1)]])

\* Entries that the documented format does not rule out and the module
\* loads like any other: a channel outside 0-15, a value_map with
\* in_min = in_max, a value_map that maps onto 0..255, and a type that is
\* none of the three.
FaultyMapping ==
    ("/tangent/kn/C/delta" :>
        [type |-> "cc_relative", channel |-> 16, control |-> 20])
 @@ ("/tangent/sl/C/value" :>
        [type |-> "cc_absolute", channel |-> 0, control |-> 24,
         value_map |-> [in_min |-> Q(0, 1), in_max |-> Q(0, 1),
                        out_min |-> Q(0, 1), out_max |-> Q(127, 1)]])
 @@ ("/tangent/sl/D/value" :>
        [type |-> "cc_absolute", channel |-> 0, control |-> 25,
         value_map |-> [in_min |-> Q(0, 1), in_max |-> Q(1, 1),
                        out_min |-> Q(0, 1), out_max |-> Q(255, 1)]])
 @@ ("/tangent/bt/B/press" :>
        [type |-> "note_on", channel |-> 0, note |-> 61])

CustomTable == ExampleMapping @@ CustomMapping

FaultyTable == CustomTable @@ FaultyMapping

\* the module-level dictionary, as edited before the start
MIDI_MAPPING == IF table = "faulty" THEN FaultyTable ELSE CustomTable

----------------------------------------------------------------------------
(* MIDI messages                                                           *)

\* msg = None
None == [type |-> "None", channel |-> 0, number |-> 0, value |-> 0]

\* a variant that rejects the data byte 127
MessageMutOffByOne(type, channel, number, value) ==
    IF channel \in 0..15 /\ number \in 0..127 /\ value \in 0..126
    THEN Ok([type |-> type, channel |-> channel, number |-> number,
             value |-> value])
    ELSE Raise

\* a variant that accepts any field
MessageMutNoCheck(type, channel, number, value) ==
    Ok([type |-> type, channel |-> channel, number |-> number,
        value |-> value])

\* mido.Message(type, channel=, note= / control=, velocity= / value=):
\* number is the note or the control, value the velocity or the value.
\* mido raises ValueError for a channel outside 0..15 or a data byte
\* outside 0..127.
Message(type, channel, number, value) ==
    IF channel \in 0..15 /\ number \in 0..127 /\ value \in 0..127
    THEN Ok([type |-> type, channel |-> channel, number |-> number,
             value |-> value])
    ELSE Raise

----------------------------------------------------------------------------
(* scale_value                                                             *)

scale_value(value, in_min, in_max, out_min, out_max) ==
    IF value.k # "num" THEN Raise       \* min(in_max, "text"): TypeError
    ELSE LET v        == max(in_min, min(in_max, value.q))
             in_span  == RSub(in_max, in_min)
             out_span == RSub(out_max, out_min)
         IN  IF in_span[1] = 0 THEN Raise       \* ZeroDivisionError
             ELSE LET scaled == RDiv(RSub(v, in_min), in_span)
                  IN  Ok(Trunc(RAdd(out_min, RMul(scaled, out_span))))

----------------------------------------------------------------------------
(* osc_handler, the thread-local part of each branch                       *)

\* velocity = 127 if args[0] > 0 else 0
velocity(gt) == IF gt THEN 127 ELSE 0

note_on_off(mapping, args) ==
    LET a0 == Arg0(args)
        gt == IF a0.ok THEN GreaterThanZero(a0.v) ELSE Raise
    IN  IF gt.ok
        THEN Message("note_on", mapping.channel, mapping.note, velocity(gt.v))
        ELSE Raise

cc_absolute(mapping, args) ==
    LET a0       == Arg0(args)
        v_map    == mapping.value_map
        midi_val == IF a0.ok
                    THEN scale_value(a0.v, v_map.in_min, v_map.in_max,
                                     v_map.out_min, v_map.out_max)
                    ELSE Raise
    IN  IF midi_val.ok
        THEN Message("control_change", mapping.channel, mapping.control,
                     midi_val.v)
        ELSE Raise

\* delta = int(args[0])
cc_relative_delta(args) ==
    LET a0 == Arg0(args) IN IF a0.ok THEN int(a0.v) ELSE Raise

\* a variant without the upper limit
clampMutNoMin(current, delta) == max(Q(0, 1), Q(current + delta, 1))[1]

\* max(0, min(127, cc_values[control] + delta))
clamp(current, delta) ==
    max(Q(0, 1), min(Q(127, 1), Q(current + delta, 1)))[1]

----------------------------------------------------------------------------
(* Handler invocations                                                     *)

Invocation(address, args) ==
    [pc |-> "handle", address |-> address, args |-> args,
     delta |-> 0, new |-> 0, msg |-> None, outcome |-> "running"]

\* the handler returns: its arguments and locals die with it
Return(th, outcome) ==
    [th EXCEPT !.pc = "done", !.address = "", !.args = <<>>, !.delta = 0,
               !.new = 0, !.msg = None, !.outcome = outcome]

Mapped(address) == address \in DOMAIN MIDI_MAPPING

At(t, pc) == t \in 1..Len(threads) /\ threads[t].pc = pc

TypeIs(t, type) ==
    /\ At(t, "handle")
    /\ Mapped(threads[t].address)
    /\ MIDI_MAPPING[threads[t].address].type = type

InFlight == {t \in 1..Len(threads) : threads[t].pc # "done"}

----------------------------------------------------------------------------
(* Inputs                                                                  *)

Addresses == DOMAIN MIDI_MAPPING \cup {"/tangent/unmapped"}

\* The argument lists tried on each address: none, ints, floats (1/2 and
\* -5/2), a string of digits and a string of letters.
ArgLists(address) ==
    CASE address = "/tangent/bt/A/press" ->
            { <<>>, <<NumArg(1, 1)>>, <<NumArg(0, 1)>>, <<NumArg(-1, 1)>> }
      [] address = "/tangent/kn/A/delta" ->
            { <<>>, <<NumArg(3, 1)>>, <<NumArg(-50, 1)>>, <<NumArg(100, 1)>>,
              <<NumArg(-5, 2)>>, <<StrArg(<<"5">>)>> }
      [] address = "/tangent/wh/A/delta" ->
            { <<NumArg(3, 1)>> }
      [] address = "/tangent/kn/B/delta" ->
            { <<NumArg(5, 1)>> }
      [] address = "/tangent/sl/A/value" ->
            { <<NumArg(1, 2)>>, <<NumArg(-5, 2)>>, <<NumArg(3, 1)>>,
              <<StrArg(<<"a", "b", "c">>)>> }
      [] address = "/tangent/sl/B/value" ->
            { <<NumArg(1, 2)>> }
      [] OTHER ->
            { <<>>, <<NumArg(1, 1)>> }

----------------------------------------------------------------------------
(* Actions                                                                 *)

\* The server receives a packet and starts a thread that calls
\* osc_handler(address, *args).
Deliver(address, args) ==
    /\ Len(threads) < MaxEvents
    /\ threads' = Append(threads, Invocation(address, args))
    /\ UNCHANGED <<cc_values, midi_out_port, sent_by, env>>

\* The same, when the previous handler has returned before the next packet
\* arrives.
DeliverSeq(address, args) ==
    /\ Len(threads) < MaxSeqEvents
    /\ InFlight = {}
    /\ threads' = Append(threads, Invocation(address, args))
    /\ UNCHANGED <<cc_values, midi_out_port, sent_by, env>>

\* a variant that falls back to a default rule for an unknown address
UnmappedMutDefault(t) ==
    /\ At(t, "handle")
    /\ ~Mapped(threads[t].address)
    /\ threads' = [threads EXCEPT ![t].pc = "send",
                       ![t].msg = Message("note_on", 0, 0, 0).v]
    /\ UNCHANGED <<cc_values, midi_out_port, sent_by, env>>

\* address not in MIDI_MAPPING
Unmapped(t) ==
    /\ At(t, "handle")
    /\ ~Mapped(threads[t].address)
    /\ threads' = [threads EXCEPT ![t] = Return(@, "ignored")]
    /\ UNCHANGED <<cc_values, midi_out_port, sent_by, env>>

\* msg = mido.Message(...) is built and the handler goes on to send it, or
\* the branch has raised and the except clause ends the handler
Build(t, m) ==
    /\ threads' = [threads EXCEPT ![t] =
            IF m.ok THEN [@ EXCEPT !.pc = "send", !.msg = m.v]
                    ELSE Return(@, "error")]
    /\ UNCHANGED <<cc_values, midi_out_port, sent_by, env>>

NoteOnOff(t) ==
    /\ TypeIs(t, "note_on_off")
    /\ Build(t, note_on_off(MIDI_MAPPING[threads[t].address], threads[t].args))

\* a variant that also records the scaled value in cc_values
CcAbsoluteMutStores(t) ==
    /\ TypeIs(t, "cc_absolute")
    /\ LET m == cc_absolute(MIDI_MAPPING[threads[t].address], threads[t].args)
       IN  /\ threads' = [threads EXCEPT ![t] =
                   IF m.ok THEN [@ EXCEPT !.pc = "send", !.msg = m.v]
                           ELSE Return(@, "error")]
           /\ cc_values' = IF m.ok THEN (m.v.number :> m.v.value) @@ cc_values
                                   ELSE cc_values
    /\ UNCHANGED <<midi_out_port, sent_by, env>>

CcAbsolute(t) ==
    /\ TypeIs(t, "cc_absolute")
    /\ Build(t, cc_absolute(MIDI_MAPPING[threads[t].address], threads[t].args))

\* delta = int(args[0]); control = mapping['control']
RelDelta(t) ==
    /\ TypeIs(t, "cc_relative")
    /\ LET d == cc_relative_delta(threads[t].args)
       IN  threads' = [threads EXCEPT ![t] =
               IF d.ok THEN [@ EXCEPT !.pc = "rel_check", !.delta = d.v]
                       ELSE Return(@, "error")]
    /\ UNCHANGED <<cc_values, midi_out_port, sent_by, env>>

control(t) == MIDI_MAPPING[threads[t].address].control

\* if control not in cc_values:
RelCheck(t) ==
    /\ At(t, "rel_check")
    /\ threads' = [threads EXCEPT ![t].pc =
            IF control(t) \notin DOMAIN cc_values THEN "rel_init"
                                                 ELSE "rel_read"]
    /\ UNCHANGED <<cc_values, midi_out_port, sent_by, env>>

\* cc_values[control] = 64
RelInit(t) ==
    /\ At(t, "rel_init")
    /\ cc_values' = (control(t) :> 64) @@ cc_values
    /\ threads' = [threads EXCEPT ![t].pc = "rel_read"]
    /\ UNCHANGED <<midi_out_port, sent_by, env>>

\* the right-hand side max(0, min(127, cc_values[control] + delta))
RelRead(t) ==
    /\ At(t, "rel_read")
    /\ threads' = [threads EXCEPT ![t].pc = "rel_write",
                       ![t].new = clamp(cc_values[control(t)], threads[t].delta)]
    /\ UNCHANGED <<cc_values, midi_out_port, sent_by, env>>

\* cc_values[control] = <that value>
RelWrite(t) ==
    /\ At(t, "rel_write")
    /\ cc_values' = [cc_values EXCEPT ![control(t)] = threads[t].new]
    /\ threads' = [threads EXCEPT ![t].pc = "rel_msg"]
    /\ UNCHANGED <<midi_out_port, sent_by, env>>

\* msg = mido.Message('control_change', ..., value=cc_values[control])
RelMsg(t) ==
    /\ At(t, "rel_msg")
    /\ Build(t, Message("control_change",
                        MIDI_MAPPING[threads[t].address].channel,
                        control(t), cc_values[control(t)]))

\* a variant that sends whatever the state of the port
SendMutNoGuard(t) ==
    /\ At(t, "send")
    /\ midi_out_port' = Append(midi_out_port, threads[t].msg)
    /\ sent_by' = Append(sent_by, [t |-> t, address |-> threads[t].address,
                                    args |-> threads[t].args])
    /\ threads' = [threads EXCEPT ![t] = Return(@, "sent")]
    /\ UNCHANGED <<cc_values, env>>

\* if msg: midi_out_port.send(msg), on the open port
Send(t) ==
    /\ At(t, "send")
    /\ port = "open"
    /\ midi_out_port' = Append(midi_out_port, threads[t].msg)
    /\ sent_by' = Append(sent_by, [t |-> t, address |-> threads[t].address,
                                    args |-> threads[t].args])
    /\ threads' = [threads EXCEPT ![t] = Return(@, "sent")]
    /\ UNCHANGED <<cc_values, env>>

Step(t) ==
    \/ Unmapped(t)
    \/ NoteOnOff(t)
    \/ CcAbsolute(t)
    \/ RelDelta(t)
    \/ RelCheck(t)
    \/ RelInit(t)
    \/ RelRead(t)
    \/ RelWrite(t)
    \/ RelMsg(t)
    \/ Send(t)

\* no call of scale_value on its own
NoCall == [state |-> "none"]

\* the module is loaded: cc_values = {}
Loaded ==
    /\ cc_values = <<>>
    /\ midi_out_port = <<>>
    /\ sent_by = <<>>
    /\ threads = <<>>

\* main() has opened the port and started the server thread; the table is a
\* well-formed one
Init ==
    /\ Loaded
    /\ table = "custom"
    /\ main_pc = "serving"
    /\ port = "open"
    /\ scale_call = NoCall

Next ==
    \/ \E address \in Addresses : \E args \in ArgLists(address) :
            Deliver(address, args)
    \/ \E t \in 1..MaxEvents : Step(t)

Spec == Init /\ [][Next]_vars

NextSeq ==
    \/ \E address \in Addresses : \E args \in ArgLists(address) :
            DeliverSeq(address, args)
    \/ \E t \in 1..MaxSeqEvents : Step(t)

SeqSpec == Init /\ [][NextSeq]_vars

----------------------------------------------------------------------------
(* main(): the port is opened, the server is created and started, packets  *)
(* are served until KeyboardInterrupt, then the server is shut down and    *)
(* the port closed. The table is whatever MIDI_MAPPING was written to be.  *)

KnownTypes == {"note_on_off", "cc_absolute", "cc_relative"}

MainAddresses ==
    {"/tangent/bt/A/press", "/tangent/kn/A/delta", "/tangent/unmapped"}
        \cup DOMAIN FaultyMapping

MainArgLists(address) ==
    CASE address = "/tangent/sl/D/value" ->
            { <<NumArg(1, 2)>>, <<NumArg(3, 1)>> }
      [] address = "/tangent/sl/C/value" ->
            { <<NumArg(1, 2)>> }
      [] address = "/tangent/bt/B/press" ->
            { <<>>, <<NumArg(1, 1)>> }
      [] address = "/tangent/bt/A/press" ->
            { <<NumArg(1, 1)>> }
      [] OTHER ->
            { <<NumArg(3, 1)>> }

\* main() is entered with the module loaded
MainInit ==
    /\ Loaded
    /\ table \in {"custom", "faulty"}
    /\ main_pc = "open_port"
    /\ port = "unopened"
    /\ scale_call = NoCall

\* midi_out_port = mido.open_output(MIDI_PORT_NAME, virtual=True)
OpenPort ==
    /\ main_pc = "open_port"
    /\ port' = "open"
    /\ main_pc' = "bind"
    /\ UNCHANGED <<cc_values, midi_out_port, sent_by, threads, table, scale_call>>

\* a variant that goes on after the failure
OpenPortFailsMutNoReturn ==
    /\ main_pc = "open_port"
    /\ main_pc' = "bind"
    /\ UNCHANGED <<cc_values, midi_out_port, sent_by, threads, table, port,
                   scale_call>>

\* open_output raises: the except clause prints the cause and returns
OpenPortFails ==
    /\ main_pc = "open_port"
    /\ main_pc' = "failed_port"
    /\ UNCHANGED <<cc_values, midi_out_port, sent_by, threads, table, port,
                   scale_call>>

\* server = ThreadingOSCUDPServer(...); the server thread is started
Bind ==
    /\ main_pc = "bind"
    /\ main_pc' = "serving"
    /\ UNCHANGED <<cc_values, midi_out_port, sent_by, threads, table, port,
                   scale_call>>

\* the constructor raises (the address is in use): nothing catches it and
\* the interpreter ends with the traceback
BindFails ==
    /\ main_pc = "bind"
    /\ main_pc' = "failed_bind"
    /\ UNCHANGED <<cc_values, midi_out_port, sent_by, threads, table, port,
                   scale_call>>

\* serve_forever receives a packet, until shutdown() has stopped it
DeliverMain(address, args) ==
    /\ main_pc \in {"serving", "interrupted"}
    /\ Len(threads) < MaxMainEvents
    /\ address \in DOMAIN MIDI_MAPPING \cup {"/tangent/unmapped"}
    /\ threads' = Append(threads, Invocation(address, args))
    /\ UNCHANGED <<cc_values, midi_out_port, sent_by, env>>

\* except KeyboardInterrupt:
Interrupt ==
    /\ main_pc = "serving"
    /\ main_pc' = "interrupted"
    /\ UNCHANGED <<cc_values, midi_out_port, sent_by, threads, table, port,
                   scale_call>>

\* server.shutdown() returns: serve_forever has stopped; handler threads
\* that were started go on
ServerShutdown ==
    /\ main_pc = "interrupted"
    /\ main_pc' = "closing"
    /\ UNCHANGED <<cc_values, midi_out_port, sent_by, threads, table, port,
                   scale_call>>

\* midi_out_port.close()
PortClose ==
    /\ main_pc = "closing"
    /\ port' = "closed"
    /\ main_pc' = "exited"
    /\ UNCHANGED <<cc_values, midi_out_port, sent_by, threads, table, scale_call>>

\* a variant in which the unknown type raises
FallthroughMutRaises(t) ==
    /\ At(t, "handle")
    /\ Mapped(threads[t].address)
    /\ MIDI_MAPPING[threads[t].address].type \notin KnownTypes
    /\ threads' = [threads EXCEPT ![t] = Return(@, "error")]
    /\ UNCHANGED <<cc_values, midi_out_port, sent_by, env>>

\* mapping["type"] is none of the three strings compared with: msg stays
\* None and `if msg:` skips the send
Fallthrough(t) ==
    /\ At(t, "handle")
    /\ Mapped(threads[t].address)
    /\ MIDI_MAPPING[threads[t].address].type \notin KnownTypes
    /\ threads' = [threads EXCEPT ![t] = Return(@, "fallthrough")]
    /\ UNCHANGED <<cc_values, midi_out_port, sent_by, env>>

\* midi_out_port.send(msg) on the closed port: mido raises ValueError and
\* the except clause ends the handler
SendClosed(t) ==
    /\ At(t, "send")
    /\ port = "closed"
    /\ threads' = [threads EXCEPT ![t] = Return(@, "error")]
    /\ UNCHANGED <<cc_values, midi_out_port, sent_by, env>>

MainNext ==
    \/ OpenPort
    \/ OpenPortFails
    \/ Bind
    \/ BindFails
    \/ \E address \in MainAddresses : \E args \in MainArgLists(address) :
            DeliverMain(address, args)
    \/ Interrupt
    \/ ServerShutdown
    \/ PortClose
    \/ \E t \in 1..MaxMainEvents : Step(t) \/ Fallthrough(t) \/ SendClosed(t)

MainSpec == MainInit /\ [][MainNext]_vars

----------------------------------------------------------------------------
(* Vocabulary of the properties                                            *)

Rule(address) == MIDI_MAPPING[address]

IsKind(address, type) == Mapped(address) /\ Rule(address).type = type

Numeric(args) == Len(args) > 0 /\ args[1].k = "num"

\* thread t takes a step / returns in this step
Steps(t) == t \in 1..Len(threads) /\ threads'[t] # threads[t]

Returns(t) == Steps(t) /\ threads'[t].pc = "done"

AllDone == InFlight = {}

\* z is q truncated toward zero, stated as a relation
IsTruncOf(z, q) ==
    IF q[1] >= 0 THEN z * q[2] <= q[1] /\ q[1] < (z + 1) * q[2]
                 ELSE (z - 1) * q[2] < q[1] /\ q[1] <= z * q[2]

Abs(n) == IF n < 0 THEN -n ELSE n

TruncTowardZero(q) == CHOOSE z \in -Abs(q[1])..Abs(q[1]) : IsTruncOf(z, q)

Into0To127(x) == IF x < 0 THEN 0 ELSE IF x > 127 THEN 127 ELSE x

ControlChange(channel, number, value) ==
    [type |-> "control_change", channel |-> channel, number |-> number,
     value |-> value]

NoteOn(channel, note, vel) ==
    [type |-> "note_on", channel |-> channel, number |-> note, value |-> vel]

\* the places in the port's log of the messages for control number c
PlacesOf(log, c) ==
    {i \in 1..Len(log) : log[i].type = "control_change" /\ log[i].number = c}

Greatest(S) == CHOOSE i \in S : \A j \in S : j <= i

\* the value last emitted for control number c, 64 when there is none
LastEmitted(log, c) ==
    IF PlacesOf(log, c) = {} THEN 64 ELSE log[Greatest(PlacesOf(log, c))].value

----------------------------------------------------------------------------
(* C1: every value stored in cc_values is an integer in 0..127, whatever   *)
(* events were handled and however their handlers interleaved.             *)

C1_StoredInRange == \A c \in DOMAIN cc_values : cc_values[c] \in 0..127

\* a delta of +100 on the centre value 64 was stored as 127
C1_Witness ==
    \E t \in 1..Len(threads) :
        /\ threads[t].pc = "rel_msg"
        /\ threads[t].delta = 100
        /\ cc_values[control(t)] = 127

----------------------------------------------------------------------------
(* C2: with handlers run one after another, a cc_relative event with a     *)
(* numeric argument returns having sent ControlChange(channel, control, v) *)
(* where v = min(127, max(0, previous + trunc(arg))) and previous is the   *)
(* value last emitted for that control number, 64 if there was none; a     *)
(* first +5 gives 69.                                                      *)

C2_Step(t) ==
    LET th   == threads[t]
        r    == Rule(th.address)
        prev == LastEmitted(midi_out_port, r.control)
        v    == Into0To127(prev + TruncTowardZero(th.args[1].q))
    IN  /\ threads'[t].outcome = "sent"
        /\ midi_out_port' =
               Append(midi_out_port, ControlChange(r.channel, r.control, v))
        /\ (PlacesOf(midi_out_port, r.control) = {} /\ th.args[1].q = Q(5, 1))
               => midi_out_port'[Len(midi_out_port')].value = 69

C2_RelativeRecurrence ==
    [][\A t \in 1..Len(threads) :
          (Returns(t) /\ IsKind(threads[t].address, "cc_relative")
                      /\ Numeric(threads[t].args))
              => C2_Step(t)]_vars

\* deltas +3, +3, -50 on CC 20 gave 67, 70, 20, in that order
C2_Witness ==
    /\ midi_out_port = <<ControlChange(0, 20, 67), ControlChange(0, 20, 70),
                         ControlChange(0, 20, 20)>>
    /\ sent_by[1].args = <<NumArg(3, 1)>>
    /\ sent_by[2].args = <<NumArg(3, 1)>>
    /\ sent_by[3].args = <<NumArg(-50, 1)>>

----------------------------------------------------------------------------
(* C3: once every handler has returned, the value stored for a control is  *)
(* the result of applying the deltas of all its events one after another,  *)
(* from 64 and with clamping, in some order.                               *)

\* the events that accumulated on control number c (each of them has sent)
DeltaEvents(c) ==
    {i \in 1..Len(sent_by) :
        IsKind(sent_by[i].address, "cc_relative")
            /\ Rule(sent_by[i].address).control = c}

Orders(S) ==
    {f \in [1..Cardinality(S) -> S] :
        \A i, j \in 1..Cardinality(S) : i # j => f[i] # f[j]}

RECURSIVE Serial(_, _)
Serial(f, n) ==
    IF n = 0 THEN 64
    ELSE Into0To127(Serial(f, n - 1) + int(sent_by[f[n]].args[1]).v)

C3_NoLostUpdate ==
    AllDone =>
        \A c \in DOMAIN cc_values :
            \E f \in Orders(DeltaEvents(c)) :
                cc_values[c] = Serial(f, Cardinality(DeltaEvents(c)))

----------------------------------------------------------------------------
(* C4: the messages reach the MIDI port in the order in which their events *)
(* were delivered, and no event sends twice.                               *)

C4_SentInDeliveryOrder ==
    \A i, j \in 1..Len(sent_by) : i < j => sent_by[i].t < sent_by[j].t

----------------------------------------------------------------------------
(* C5: a step of the handler of a cc_relative event leaves the accumulated *)
(* value of every cc_relative rule with another (channel, control) pair    *)
(* as it was.                                                              *)

RelativeRules == {a \in DOMAIN MIDI_MAPPING : Rule(a).type = "cc_relative"}

\* the accumulated value the rule at address a will continue from
Accumulated(a, cc) ==
    IF Rule(a).control \in DOMAIN cc THEN cc[Rule(a).control] ELSE 64

C5_PerChannelAndControl ==
    [][\A t \in 1..Len(threads) :
          (Steps(t) /\ IsKind(threads[t].address, "cc_relative"))
              => \A a \in RelativeRules :
                    (<<Rule(a).channel, Rule(a).control>> #
                        <<Rule(threads[t].address).channel,
                          Rule(threads[t].address).control>>)
                        => Accumulated(a, cc_values') = Accumulated(a, cc_values)]_vars

----------------------------------------------------------------------------
(* C6: a step of the handler of a mapped event whose first argument is     *)
(* absent or not a number leaves cc_values as it was.                      *)

Malformed(args) == Len(args) = 0 \/ args[1].k # "num"

C6_MalformedLeavesState ==
    [][\A t \in 1..Len(threads) :
          (Steps(t) /\ Mapped(threads[t].address)
                    /\ Malformed(threads[t].args))
              => cc_values' = cc_values]_vars

----------------------------------------------------------------------------
(* C7: a handler that ends in the except clause while the port is open   *)
(* does so in its first step, before it has stored or sent anything; that  *)
(* step changes neither cc_values nor the port nor any other handler, so   *)
(* the events that follow are translated from the state the failed event   *)
(* found.                                                                  *)

C7_FailureContained ==
    [][\A t \in 1..Len(threads) :
          (Returns(t) /\ threads'[t].outcome = "error" /\ port = "open")
              => /\ threads[t].pc = "handle"
                 /\ UNCHANGED <<cc_values, midi_out_port, sent_by, env>>
                 /\ \A u \in 1..Len(threads) :
                        u # t => threads'[u] = threads[u]]_vars

----------------------------------------------------------------------------
(* C8: the handler of an event whose address is not in MIDI_MAPPING        *)
(* returns in one step, whatever the arguments, and changes neither the    *)
(* port nor cc_values.                                                     *)

C8_UnmappedIgnored ==
    [][\A t \in 1..Len(threads) :
          (Steps(t) /\ ~Mapped(threads[t].address))
              => /\ threads'[t].outcome = "ignored"
                 /\ threads'[t].pc = "done"
                 /\ UNCHANGED <<cc_values, midi_out_port, sent_by, env>>]_vars

\* an unmapped event was ignored after a delta had been accumulated and sent
C8_Witness ==
    /\ Len(threads) = 2
    /\ threads[1].outcome = "sent"
    /\ threads[2].outcome = "ignored"
    /\ cc_values = (20 :> 67)
    /\ Len(midi_out_port) = 1

----------------------------------------------------------------------------
(* C9: the handler of a note_on_off event with a numeric first argument    *)
(* returns having sent exactly one message, note_on on the rule's channel  *)
(* and note with velocity 127 if the argument is greater than zero and 0   *)
(* otherwise; the port never receives a note_off.                          *)

C9_Step(t) ==
    LET th == threads[t]
        r  == Rule(th.address)
        x  == th.args[1].q
    IN  /\ threads'[t].outcome = "sent"
        /\ midi_out_port' =
               Append(midi_out_port,
                      NoteOn(r.channel, r.note, IF RLess(Q(0, 1), x) THEN 127 ELSE 0))
        /\ \A i \in 1..Len(sent_by) : sent_by[i].t # t
        /\ Len(sent_by') = Len(sent_by) + 1
        /\ sent_by'[Len(sent_by')].t = t

C9_NoteOn ==
    [][/\ \A t \in 1..Len(threads) :
            (Returns(t) /\ IsKind(threads[t].address, "note_on_off")
                        /\ Numeric(threads[t].args))
                => C9_Step(t)
       /\ \A i \in 1..Len(midi_out_port') :
            midi_out_port'[i].type # "note_off"]_vars

\* a press (1) and a release (0) were sent as note_on 127 and note_on 0
C9_Witness ==
    /\ midi_out_port = <<NoteOn(0, 60, 127), NoteOn(0, 60, 0)>>
    /\ sent_by[1].args = <<NumArg(1, 1)>>
    /\ sent_by[2].args = <<NumArg(0, 1)>>

----------------------------------------------------------------------------
(* C10: the handler of a cc_absolute event with a numeric first argument   *)
(* returns having sent ControlChange(channel, control, val), val being     *)
(*   out_min + ((clamped - in_min) / (in_max - in_min)) * (out_max - out_min) *)
(* truncated toward zero; an argument below in_min gives what in_min gives,*)
(* one above in_max what in_max gives; 0.5 on 0.0..1.0 -> 0..127 gives 63. *)

Exact(x, m) ==
    LET clamped == IF RLess(x, m.in_min) THEN m.in_min
                   ELSE IF RLess(m.in_max, x) THEN m.in_max ELSE x
    IN  RAdd(m.out_min,
             RMul(RDiv(RSub(clamped, m.in_min), RSub(m.in_max, m.in_min)),
                  RSub(m.out_max, m.out_min)))

ScaleOf(q, m) ==
    scale_value(NumArg(q[1], q[2]), m.in_min, m.in_max, m.out_min, m.out_max).v

C10_Step(t) ==
    LET th  == threads[t]
        r   == Rule(th.address)
        m   == r.value_map
        x   == th.args[1].q
        val == midi_out_port'[Len(midi_out_port')].value
    IN  /\ threads'[t].outcome = "sent"
        /\ midi_out_port' =
               Append(midi_out_port, ControlChange(r.channel, r.control, val))
        /\ IsTruncOf(val, Exact(x, m))
        /\ RLess(x, m.in_min) => val = ScaleOf(m.in_min, m)
        /\ RLess(m.in_max, x) => val = ScaleOf(m.in_max, m)
        /\ (th.address = "/tangent/sl/A/value" /\ REq(x, Q(1, 2))) => val = 63

C10_AbsoluteScaling ==
    [][\A t \in 1..Len(threads) :
          (Returns(t) /\ IsKind(threads[t].address, "cc_absolute")
                      /\ Numeric(threads[t].args))
              => C10_Step(t)]_vars

\* 0.5 on the shipped slider was sent as 63, and an argument below in_min
\* as out_min
C10_Witness ==
    /\ midi_out_port = <<ControlChange(0, 22, 63), ControlChange(0, 22, 0)>>
    /\ sent_by[1].args = <<NumArg(1, 2)>>
    /\ sent_by[2].args = <<NumArg(-5, 2)>>

----------------------------------------------------------------------------
(* scale_value on its own: one call with arguments from the sets below,    *)
(* made for two input values over the same ranges.                         *)

ScaleValues ==
    {Q(-5, 2), Q(-1, 1), Q(0, 1), Q(1, 4), Q(1, 2), Q(1, 1), Q(3, 1)}

\* <<in_min, in_max>>: the shipped range, a bipolar one, an empty one and a
\* reversed one
InRanges ==
    { <<Q(0, 1), Q(1, 1)>>, <<Q(-1, 1), Q(1, 1)>>,
      <<Q(0, 1), Q(0, 1)>>, <<Q(1, 1), Q(0, 1)>> }

\* <<out_min, out_max>>: whole and fractional limits, of either sign
OutRanges ==
    { <<Q(0, 1), Q(127, 1)>>, <<Q(10, 1), Q(100, 1)>>, <<Q(1, 2), Q(10, 1)>>,
      <<Q(-5, 2), Q(-1, 2)>>, <<Q(-10, 1), Q(-5, 1)>>, <<Q(5, 1), Q(5, 1)>>,
      <<Q(127, 1), Q(0, 1)>> }

ScaleCalls ==
    {[state |-> "called", value |-> v, value2 |-> w,
      in_min |-> i[1], in_max |-> i[2], out_min |-> o[1], out_max |-> o[2],
      result |-> 0, result2 |-> 0] :
        v \in ScaleValues, w \in ScaleValues, i \in InRanges, o \in OutRanges}

ScaleInit ==
    /\ Loaded
    /\ table = "custom"
    /\ main_pc = "serving"
    /\ port = "open"
    /\ scale_call \in ScaleCalls

\* scale_value(value, in_min, in_max, out_min, out_max) returns or raises
ScaleValue ==
    /\ scale_call.state = "called"
    /\ LET c  == scale_call
           r  == scale_value(NumArg(c.value[1], c.value[2]),
                             c.in_min, c.in_max, c.out_min, c.out_max)
           r2 == scale_value(NumArg(c.value2[1], c.value2[2]),
                             c.in_min, c.in_max, c.out_min, c.out_max)
       IN  scale_call' =
               IF r.ok /\ r2.ok
               THEN [c EXCEPT !.state = "returned", !.result = r.v,
                              !.result2 = r2.v]
               ELSE [c EXCEPT !.state = "raised"]
    /\ UNCHANGED <<cc_values, midi_out_port, sent_by, threads,
                   table, main_pc, port>>

ScaleNext == ScaleValue

ScaleSpec == ScaleInit /\ [][ScaleNext]_vars

RLeq(a, b) == ~RLess(b, a)

IsWhole(q) == q[1] % q[2] = 0

\* the call returned and in_min < in_max, out_min <= out_max
ScaledOverProperRanges ==
    /\ scale_call.state = "returned"
    /\ RLess(scale_call.in_min, scale_call.in_max)
    /\ RLeq(scale_call.out_min, scale_call.out_max)

Within(r, lo, hi) == RLeq(lo, Q(r, 1)) /\ RLeq(Q(r, 1), hi)

----------------------------------------------------------------------------
(* C11 as stated: for in_min < in_max and out_min <= out_max, the result   *)
(* of scale_value lies in [out_min, out_max] for every input.              *)

C11_ResultInOutRange ==
    ScaledOverProperRanges =>
        /\ Within(scale_call.result, scale_call.out_min, scale_call.out_max)
        /\ Within(scale_call.result2, scale_call.out_min, scale_call.out_max)

(* C11 as amended: the same, for an out_min that is a whole number or not  *)
(* positive and an out_max that is a whole number or not negative (so for  *)
(* all whole-number limits).                                               *)

C11_ResultInWholeOutRange ==
    (/\ ScaledOverProperRanges
     /\ IsWhole(scale_call.out_min) \/ RLeq(scale_call.out_min, Q(0, 1))
     /\ IsWhole(scale_call.out_max) \/ RLeq(Q(0, 1), scale_call.out_max))
        => /\ Within(scale_call.result, scale_call.out_min, scale_call.out_max)
           /\ Within(scale_call.result2, scale_call.out_min, scale_call.out_max)

\* an input above in_max was scaled onto out_max, one below in_min onto
\* out_min
C11_Witness ==
    /\ scale_call.state = "returned"
    /\ scale_call.value = Q(3, 1)
    /\ scale_call.value2 = Q(-5, 2)
    /\ <<scale_call.in_min, scale_call.in_max>> = <<Q(-1, 1), Q(1, 1)>>
    /\ <<scale_call.out_min, scale_call.out_max>> = <<Q(10, 1), Q(100, 1)>>
    /\ scale_call.result = 100
    /\ scale_call.result2 = 10

----------------------------------------------------------------------------
(* C12: for in_min < in_max and out_min <= out_max, value <= value2        *)
(* implies scale_value(value, ...) <= scale_value(value2, ...).            *)

C12_Monotonic ==
    (ScaledOverProperRanges /\ RLeq(scale_call.value, scale_call.value2))
        => scale_call.result <= scale_call.result2

\* two inputs inside the input range, the larger one scaled strictly higher
C12_Witness ==
    /\ ScaledOverProperRanges
    /\ scale_call.value = Q(1, 4)
    /\ scale_call.value2 = Q(1, 2)
    /\ <<scale_call.out_min, scale_call.out_max>> = <<Q(0, 1), Q(127, 1)>>
    /\ <<scale_call.in_min, scale_call.in_max>> = <<Q(0, 1), Q(1, 1)>>
    /\ scale_call.result = 31
    /\ scale_call.result2 = 63

----------------------------------------------------------------------------
(* C13: a table with a rule whose channel is outside 0..15, whose note or  *)
(* control is outside 0..127, or whose value_map has in_min >= in_max or   *)
(* out_min > out_max is refused when main() starts: the server is never    *)
(* started and no handler ever runs with it.                               *)

Target(r) == IF "note" \in DOMAIN r THEN r.note ELSE r.control

InvalidRule(r) ==
    \/ r.channel \notin 0..15
    \/ Target(r) \notin 0..127
    \/ /\ r.type = "cc_absolute"
       /\ \/ ~RLess(r.value_map.in_min, r.value_map.in_max)
          \/ RLess(r.value_map.out_max, r.value_map.out_min)

TableInvalid == \E a \in DOMAIN MIDI_MAPPING : InvalidRule(MIDI_MAPPING[a])

C13_InvalidTableRejected ==
    TableInvalid =>
        /\ main_pc \notin {"serving", "interrupted", "closing", "exited"}
        /\ threads = <<>>

----------------------------------------------------------------------------
(* C14: every message the port has been given has a channel in 0..15, a    *)
(* note or control in 0..127 and a velocity or value in 0..127, whatever   *)
(* the table and the events.                                               *)

----------------------------------------------------------------------------
(* C15: a handler sends at most one message, and one that does not end in  *)
(* the except clause sends one exactly when its address is mapped and its  *)
(* first argument is a number.                                             *)

C15_OnePerWellFormedEvent ==
    [][\A t \in 1..Len(threads) :
          Returns(t) =>
              /\ Len(midi_out_port') \in {Len(midi_out_port), Len(midi_out_port) + 1}
              /\ (threads'[t].outcome = "sent")
                    <=> (Len(midi_out_port') = Len(midi_out_port) + 1)
              /\ threads'[t].outcome # "error" =>
                    ((threads'[t].outcome = "sent")
                        <=> (/\ Mapped(threads[t].address)
                             /\ ~Malformed(threads[t].args)))]_vars

----------------------------------------------------------------------------
(* C16: when open_output or the server's constructor fails, main() ends:   *)
(* no handler is ever started and nothing is sent; the server runs only    *)
(* with the port opened.                                                   *)

C16_StartupFailureEndsMain ==
    /\ main_pc \in {"failed_port", "failed_bind"} =>
            threads = <<>> /\ midi_out_port = <<>>
    /\ port = "unopened" =>
            /\ main_pc \in {"open_port", "failed_port"}
            /\ threads = <<>>
            /\ midi_out_port = <<>>

\* the port was opened and the server's constructor raised
C16_Witness == main_pc = "failed_bind" /\ port = "open"

----------------------------------------------------------------------------
(* C17: a step of a handler whose rule is not cc_relative (note_on_off,    *)
(* cc_absolute, unmapped) leaves cc_values as it was; cc_values changes    *)
(* only in a step of a cc_relative handler; no step changes the table.     *)

C17_OnlyRelativeMutates ==
    [][/\ table' = table
       /\ \A t \in 1..Len(threads) :
             (Steps(t) /\ ~IsKind(threads[t].address, "cc_relative"))
                 => cc_values' = cc_values
       /\ cc_values' # cc_values =>
             \E t \in 1..Len(threads) :
                 Steps(t) /\ IsKind(threads[t].address, "cc_relative")]_vars

\* a slider value was sent after a delta had been stored: the stored value
\* is still the delta's
C17_Witness ==
    /\ Len(threads) = 2
    /\ threads[1].outcome = "sent"
    /\ threads[2].outcome = "sent"
    /\ cc_values = (20 :> 67)
    /\ midi_out_port = <<ControlChange(0, 20, 67), ControlChange(0, 25, 127)>>

----------------------------------------------------------------------------
(* C18: main() leaves the serve loop only by the interrupt; the port is    *)
(* closed only after the server has been shut down, and stays closed; no   *)
(* packet is delivered once the server is shut down; while the port is not *)
(* open no step adds a message to it, also not the step of a handler that  *)
(* was in flight when the port was closed.                                 *)

----------------------------------------------------------------------------
(* C19: the message a cc_relative handler is about to send carries the     *)
(* value that handler itself stored in cc_values.                          *)

C19_EmitsOwnStore ==
    \A t \in 1..Len(threads) :
        (At(t, "send") /\ IsKind(threads[t].address, "cc_relative"))
            => threads[t].msg.value = threads[t].new

----------------------------------------------------------------------------
(* C20: the handler of an event whose rule has a type other than the three *)
(* known ones returns in one step without entering the except clause, and  *)
(* changes neither the port nor cc_values.                                 *)

C20_UnknownTypeFallsThrough ==
    [][\A t \in 1..Len(threads) :
          (/\ Steps(t)
           /\ Mapped(threads[t].address)
           /\ Rule(threads[t].address).type \notin KnownTypes)
              => /\ threads'[t].outcome = "fallthrough"
                 /\ threads'[t].pc = "done"
                 /\ UNCHANGED <<cc_values, midi_out_port, sent_by, env>>]_vars

\* an event on a rule of type "note_on" fell through after a delta had been
\* accumulated and sent
C20_Witness ==
    /\ Len(threads) = 2
    /\ threads[1].outcome = "sent"
    /\ threads[2].outcome = "fallthrough"
    /\ cc_values = (20 :> 67)
    /\ midi_out_port = <<ControlChange(0, 20, 67)>>

====
